---- MODULE Spec2Model ----
(***************************************************************************)
(* A model of back.js: the URL validator, the filename sanitizer, the      *)
(* title-suggestion client, the body-text extraction run in the page, the  *)
(* scale clamp, and the two request handlers POST /api/suggest-title and   *)
(* POST /api/print-pdf with every await as a step that resolves or throws. *)
(*                                                                         *)
(* JavaScript strings are sequences of one-character strings.  JavaScript  *)
(* values that may be absent are records [t |-> tag, v |-> payload].       *)
(***************************************************************************)
EXTENDS Integers, Sequences, FiniteSets

VARIABLES
    endpoint,      \* which handler serves the current request: "none", "print", "title"
    pc,            \* the handler's position (the await it is suspended at)
    req,           \* the parsed request body
    apiKey,        \* OPENAI_API_KEY is non-empty
    browser,       \* the handler's `browser`: "none" (undefined), "open", "closed"
    work,          \* the expensive operations started for the current request
    page,          \* the texts of the loaded document
    pageTitle,     \* `pageTitle`
    mainText,      \* `mainText`
    filenameBase,  \* `filenameBase`
    filename,      \* `filename`
    pdfScale,      \* the `scale` option handed to page.pdf, in hundredths
    llm,           \* how the title-suggestion call ended
    failed,        \* the awaited call that threw, or "none"
    responses,     \* the responses written for the current request
    pageStatus,    \* HTTP status of the page fetched by the title endpoint, 0 before
    input,         \* argument of the function under test (function specifications)
    output,        \* its result
    phase          \* position of the function specifications

vars == <<endpoint, pc, req, apiKey, browser, work, page, pageTitle, mainText,
          filenameBase, filename, pdfScale, llm, failed, responses, pageStatus,
          input, output, phase>>

handlerVars == <<endpoint, pc, req, apiKey, browser, work, page, pageTitle, mainText,
                 filenameBase, filename, pdfScale, llm, failed, responses,
                 pageStatus>>

fnVars == <<input, output, phase>>

----------------------------------------------------------------------------
(* JavaScript values *)

Str(s) == [t |-> "str", v |-> s]

Null == [t |-> "null", v |-> <<>>]

Undefined == [t |-> "undefined", v |-> <<>>]

Min(a, b) == IF a < b THEN a ELSE b

Max(a, b) == IF a > b THEN a ELSE b

\* String.prototype.slice(0, n) for n >= 0
Slice(s, n) == SubSeq(s, 1, Min(Len(s), n))

\* a string of k letters
Pad(k) == [i \in 1..k |-> "a"]

----------------------------------------------------------------------------
(* sanitizeFilename *)

\* the characters of the class [\\/:*?"<>|]
Reserved == {"\\", "/", ":", "*", "?", "\"", "<", ">", "|"}

\* white space removed by String.prototype.trim (the part of it the inputs use)
WhiteSpace == {" ", "\t", "\n", "\r"}

\* the literal 'document'
DocumentStr == <<"d", "o", "c", "u", "m", "e", "n", "t">>

\* the length slice(0, 120) keeps
SliceLen == 120

\* replace(/[\\/:*?"<>|]+/g, '-'): each maximal run of reserved characters
\* becomes one hyphen (its first character is replaced, the others dropped)
IsKept(m) == m.keep

ReplaceReserved(s) ==
    LET marked == [i \in 1..Len(s) |->
                     [c    |-> IF s[i] \in Reserved THEN "-" ELSE s[i],
                      keep |-> ~(s[i] \in Reserved /\ i > 1 /\ s[i-1] \in Reserved)]]
        kept == SelectSeq(marked, IsKept)
    IN  [i \in 1..Len(kept) |-> kept[i].c]

\* String.prototype.trim
Trim(s) ==
    LET keep == {i \in 1..Len(s) : s[i] \notin WhiteSpace}
    IN  IF keep = {} THEN <<>>
        ELSE LET lo == CHOOSE i \in keep : \A j \in keep : i <= j
                 hi == CHOOSE i \in keep : \A j \in keep : j <= i
             IN  SubSeq(s, lo, hi)

\* .trim().slice(0, 120)
TrimThenSlice(s) == Slice(Trim(s), SliceLen)

\* (name || 'document'): null, undefined and '' are falsy
OrDocument(name) == IF name.t # "str" \/ name.v = <<>> THEN DocumentStr ELSE name.v

\* a sanitizer that forgets the replacement
SanitizeNoReplace(name) ==
    LET r == TrimThenSlice(OrDocument(name))
    IN  IF r = <<>> THEN DocumentStr ELSE r

\* a sanitizer that forgets the final fallback
SanitizeNoFallback(name) == TrimThenSlice(ReplaceReserved(OrDocument(name)))

sanitizeFilename(name) ==
    LET r == TrimThenSlice(ReplaceReserved(OrDocument(name)))
    IN  IF r = <<>> THEN DocumentStr ELSE r

----------------------------------------------------------------------------
(* isValidHttpUrl *)

LowerCase == <<"a","b","c","d","e","f","g","h","i","j","k","l","m",
               "n","o","p","q","r","s","t","u","v","w","x","y","z">>

UpperCase == <<"A","B","C","D","E","F","G","H","I","J","K","L","M",
               "N","O","P","Q","R","S","T","U","V","W","X","Y","Z">>

Letters == {LowerCase[i] : i \in 1..Len(LowerCase)} \cup {UpperCase[i] : i \in 1..Len(UpperCase)}

Digits == {"0", "1", "2", "3", "4", "5", "6", "7", "8", "9"}

ToLower(c) ==
    IF \E i \in 1..Len(UpperCase) : UpperCase[i] = c
    THEN LowerCase[CHOOSE i \in 1..Len(UpperCase) : UpperCase[i] = c]
    ELSE c

\* String(value), the conversion `new URL` applies to its argument
JsString(value) ==
    CASE value.t = "str" -> value.v
      [] value.t = "null" -> <<"n", "u", "l", "l">>
      [] OTHER -> <<"u", "n", "d", "e", "f", "i", "n", "e", "d">>

\* schemes whose URLs need a host
SpecialSchemes == { <<"h","t","t","p">>, <<"h","t","t","p","s">>, <<"f","t","p">>,
                    <<"w","s">>, <<"w","s","s">> }

\* what `new URL(value)` yields without a base: [ok |-> FALSE] when it throws,
\* else the protocol (the lower-cased scheme followed by ":")
ParseURL(value) ==
    LET s == Trim(JsString(value))
        colons == {i \in 1..Len(s) : s[i] = ":"}
    IN  IF colons = {} THEN [ok |-> FALSE, protocol |-> <<>>]
        ELSE LET c == CHOOSE i \in colons : \A j \in colons : i <= j
                 scheme == [i \in 1..(c - 1) |-> ToLower(s[i])]
                 wellFormed == /\ c > 1
                               /\ s[1] \in Letters
                               /\ \A i \in 2..(c - 1) : s[i] \in Letters \cup Digits \cup {"+", "-", "."}
                 rest == SubSeq(s, c + 1, Len(s))
                 hostChars == {i \in 1..Len(rest) : rest[i] \notin {"/", "\\"}}
             IN  IF ~wellFormed THEN [ok |-> FALSE, protocol |-> <<>>]
                 ELSE IF scheme \in SpecialSchemes /\ hostChars = {}
                      THEN [ok |-> FALSE, protocol |-> <<>>]
                      ELSE [ok |-> TRUE, protocol |-> scheme \o <<":">>]

\* a validator that accepts every string that parses
AnyParsedUrl(str) == ParseURL(str).ok

isValidHttpUrl(str) ==
    LET u == ParseURL(str)
    IN  IF ~u.ok THEN FALSE
        ELSE u.protocol = <<"h","t","t","p",":">> \/ u.protocol = <<"h","t","t","p","s",":">>

----------------------------------------------------------------------------
(* the scale handed to page.pdf; numbers are in hundredths *)

Num(n) == [t |-> "num", v |-> n]

NaN == [t |-> "nan", v |-> 0]

\* the 0.1 of Math.max(0.1, ...)
ScaleMin == 10

\* the 2 of Math.min(2, ...)
ScaleMax == 200

\* the 1 of `scale = 1` and of `|| 1`
ScaleOne == 100

\* the destructuring default `scale = 1`: it applies to undefined only
DefaultScale(scale) == IF scale.t = "undefined" THEN Num(ScaleOne) ELSE scale

\* Number(scale): null is 0, a string that is no number is NaN
Number(scale) ==
    CASE scale.t = "num" -> scale
      [] scale.t = "null" -> Num(0)
      [] OTHER -> NaN

\* x || 1: NaN and 0 are falsy
OrOne(x) == IF x.t = "nan" \/ x.v = 0 THEN ScaleOne ELSE x.v

\* Math.max(0.1, Math.min(2, Number(scale) || 1))
ClampScale(scale) == Max(ScaleMin, Min(ScaleMax, OrOne(Number(scale))))

----------------------------------------------------------------------------
(* the body-text extraction evaluated in the page *)

\* A text is known by the element it came from and its length; '' is EmptyText.
EmptyText == [src |-> "", len |-> 0]

Text(src, n) == IF n = 0 THEN EmptyText ELSE [src |-> src, len |-> n]

\* the `candidates` array
Candidates == <<"article", "main", "section", "div[role=main]",
                "#content", ".content", ".post", ".article">>

\* the 12000 of txt.slice(0, 12000)
TextLimit == 12000

\* textFrom(selector): the matched element's innerText, '' without a match
textFrom(doc, selector) == doc.el[selector]

\* txt.slice(0, n): a prefix of the same text
TextSlice(txt, n) == Text(txt.src, Min(txt.len, n))

\* the comparison of the loop with >= for >
LongerOrEqual(t, txt) == t.len > 0 /\ t.len >= txt.len

\* if (t && t.length > txt.length)
Longer(t, txt) == t.len > 0 /\ t.len > txt.len

\* for (const c of candidates) ..., from candidate i on
RECURSIVE ScanCandidates(_, _, _)
ScanCandidates(doc, i, txt) ==
    IF i > Len(Candidates) THEN txt
    ELSE LET t == textFrom(doc, Candidates[i])
         IN  ScanCandidates(doc, i + 1, IF Longer(t, txt) THEN t ELSE txt)

\* the function given to page.evaluate
ExtractMainText(doc) ==
    LET txt == ScanCandidates(doc, 1, EmptyText)
        txt2 == IF txt.len = 0 THEN doc.body ELSE txt
    IN  TextSlice(txt2, TextLimit)

----------------------------------------------------------------------------
(* The handlers' state between requests *)

NoReq == [url |-> Undefined, scale |-> Undefined, useLLM |-> FALSE]

NoDoc == [el |-> [c \in {Candidates[i] : i \in 1..Len(Candidates)} |-> EmptyText],
          body |-> EmptyText]

NoReply == [kind |-> "none", ok |-> FALSE, content |-> Undefined]

NoLLM == [reply |-> NoReply, threw |-> FALSE, value |-> Null]

HandlerIdle ==
    /\ endpoint = "none"
    /\ pc = "idle"
    /\ req = NoReq
    /\ browser = "none"
    /\ work = {}
    /\ page = NoDoc
    /\ pageTitle = <<>>
    /\ mainText = EmptyText
    /\ filenameBase = <<>>
    /\ filename = <<>>
    /\ pdfScale = 0
    /\ llm = NoLLM
    /\ failed = "none"
    /\ responses = <<>>
    /\ pageStatus = 0

FnIdle == input = Undefined /\ output = <<>> /\ phase = "idle"

----------------------------------------------------------------------------
(* sanitizeFilename applied to bounded inputs, then to its own result *)

\* longest tail appended to the padding of an input
MaxTail == 3

TailChars == {"a", " ", "*", "/"}

Tails == UNION {[1..n -> TailChars] : n \in 0..MaxTail}

\* paddings that put the tail before, across and after position 120
PadLens == {0} \cup ((SliceLen - MaxTail)..SliceLen)

SanitizeInputs ==
    {Null, Undefined} \cup {Str(Pad(k) \o tl) : k \in PadLens, tl \in Tails}

InitSanitize ==
    /\ HandlerIdle
    /\ apiKey = FALSE
    /\ input \in SanitizeInputs
    /\ output = <<>>
    /\ phase = "in"

Sanitize ==
    /\ phase = "in"
    /\ output' = <<sanitizeFilename(input)>>
    /\ phase' = "once"
    /\ UNCHANGED <<input, handlerVars>>

SanitizeAgain ==
    /\ phase = "once"
    /\ output' = Append(output, sanitizeFilename(Str(output[1])))
    /\ phase' = "twice"
    /\ UNCHANGED <<input, handlerVars>>

NextSanitize == Sanitize \/ SanitizeAgain

SpecSanitize == InitSanitize /\ [][NextSanitize]_vars

----------------------------------------------------------------------------
(* the scale clamp applied to bounded inputs *)

\* largest magnitude of a requested scale, in hundredths
MaxScaleIn == 1000

ScaleInputs == {Undefined, Null, Str(<<"x">>)} \cup {Num(n) : n \in (-MaxScaleIn)..MaxScaleIn}

InitScale ==
    /\ HandlerIdle
    /\ apiKey = FALSE
    /\ input \in ScaleInputs
    /\ output = <<>>
    /\ phase = "in"

Clamp ==
    /\ phase = "in"
    /\ output' = <<ClampScale(DefaultScale(input))>>
    /\ phase' = "once"
    /\ UNCHANGED <<input, handlerVars>>

NextScale == Clamp

SpecScale == InitScale /\ [][NextScale]_vars

----------------------------------------------------------------------------
(* the extraction applied to bounded documents *)

\* longest text below the limit
MaxShort == 1

TextLens == (0..MaxShort) \cup {TextLimit + 1}

CandidateSet == {Candidates[i] : i \in 1..Len(Candidates)}

Docs ==
    {[el |-> [c \in CandidateSet |-> Text(c, n[c])], body |-> Text("body", b)] :
        n \in [CandidateSet -> TextLens], b \in TextLens}

InitExtract ==
    /\ HandlerIdle
    /\ apiKey = FALSE
    /\ input \in Docs
    /\ output = <<>>
    /\ phase = "in"

Extract ==
    /\ phase = "in"
    /\ output' = <<ExtractMainText(input)>>
    /\ phase' = "once"
    /\ UNCHANGED <<input, handlerVars>>

NextExtract == Extract

SpecExtract == InitExtract /\ [][NextExtract]_vars

----------------------------------------------------------------------------
(* suggestTitleFromText *)

\* what the completions endpoint does with the one POST: the fetch rejects,
\* or it resolves with res.ok and choices[0].message.content
Replies ==
    {[kind |-> "reject", ok |-> FALSE, content |-> Undefined]} \cup
    {[kind |-> "response", ok |-> FALSE, content |-> Undefined]} \cup
    {[kind |-> "response", ok |-> TRUE, content |-> c] :
        c \in {Undefined, Str(<<" ">>), Str(<<"T">>), Str(<<"x", ":", "y", " ">>)}}

\* a client without the `if (!res.ok) throw` line
SuggestTitleNoOkCheck(key, reply) ==
    IF ~key THEN [reply |-> NoReply, threw |-> FALSE, value |-> Null]
    ELSE IF reply.kind = "reject" THEN [reply |-> reply, threw |-> TRUE, value |-> Null]
    ELSE LET title == IF reply.content.t = "str" THEN Trim(reply.content.v) ELSE <<>>
         IN  [reply |-> reply, threw |-> FALSE,
              value |-> IF title = <<>> THEN Null ELSE Str(title)]

\* the result of the call: it threw, or returned `value` (a title or null).
\* Without a key it returns null before any request is made.
suggestTitleFromText(key, reply) ==
    IF ~key THEN [reply |-> NoReply, threw |-> FALSE, value |-> Null]
    ELSE IF reply.kind = "reject" THEN [reply |-> reply, threw |-> TRUE, value |-> Null]
    ELSE IF ~reply.ok THEN [reply |-> reply, threw |-> TRUE, value |-> Null]
    ELSE LET title == IF reply.content.t = "str" THEN Trim(reply.content.v) ELSE <<>>
         IN  [reply |-> reply, threw |-> FALSE,
              value |-> IF title = <<>> THEN Null ELSE Str(title)]

\* the replies the call can meet: none is asked for without a key
RepliesFor(key) == IF key THEN Replies ELSE {NoReply}

----------------------------------------------------------------------------
(* The requests and the pages the handlers are run on *)

HttpUrls == { Str(<<"h","t","t","p",":","/","/","a">>),
              Str(<<"h","t","t","p","s",":","/","/","a">>),
              Str(<<"H","T","T","P",":","/","/","a">>) }

OtherUrls == { Undefined,
               Str(<<>>),
               Str(<<"n","o","t"," ","a"," ","u","r","l">>),
               Str(<<"f","t","p",":","/","/","a">>),
               Str(<<"h","t","t","p",":","/","/">>),
               Str(<<"/","a",":","b">>) }

UrlInputs == HttpUrls \cup OtherUrls

HandlerScales == {Undefined, Num(0), Num(150), Num(1000)}

Titles == { <<>>, <<"a", " ", "b">>, <<"a", "/", "b">> }

HandlerDocs ==
    { [NoDoc EXCEPT !.body = Text("body", 1)],
      NoDoc,
      [NoDoc EXCEPT !.el["article"] = Text("article", TextLimit + 1),
                    !.el["#content"] = Text("#content", 1)] }

PageStatuses == {200, 404, 500}

Resp(status, type, text, name) ==
    [status |-> status, type |-> type, text |-> text, name |-> name]

PdfExt == <<".", "p", "d", "f">>

----------------------------------------------------------------------------
(* A request arrives: express.json has parsed its body *)

Receive ==
    /\ pc \in {"idle", "done"}
    /\ \E e \in {"print", "title"}, u \in UrlInputs, sc \in HandlerScales, l \in BOOLEAN :
          /\ e = "title" => (sc = Undefined /\ l = FALSE)
          /\ endpoint' = e
          /\ req' = [url |-> u, scale |-> sc, useLLM |-> l]
    /\ pc' = "start"
    /\ browser' = "none"
    /\ work' = {}
    /\ page' = NoDoc
    /\ pageTitle' = <<>>
    /\ mainText' = EmptyText
    /\ filenameBase' = <<>>
    /\ filename' = <<>>
    /\ pdfScale' = 0
    /\ llm' = NoLLM
    /\ failed' = "none"
    /\ responses' = <<>>
    /\ pageStatus' = 0
    /\ UNCHANGED <<apiKey, fnVars>>

----------------------------------------------------------------------------
(* POST /api/print-pdf *)

\* a catch block that writes no response
ThrowSilently(step) ==
    /\ failed' = step
    /\ responses' = responses
    /\ pc' = IF browser = "open" THEN "close" ELSE "done"

\* a handler whose close is not in a finally block
ThrowNoFinally(step) ==
    /\ failed' = step
    /\ responses' = Append(responses, Resp(500, "text", "Failed to generate PDF: ", <<>>))
    /\ pc' = "done"

\* an awaited call of the try block throws: the catch block answers 500, and
\* the finally block goes on to close the browser if there is one
Throw(step) ==
    /\ failed' = step
    /\ responses' = Append(responses, Resp(500, "text", "Failed to generate PDF: ", <<>>))
    /\ pc' = IF browser = "open" THEN "close" ELSE "done"

\* the handler up to its first await
PrintStart ==
    /\ endpoint = "print" /\ pc = "start"
    /\ IF ~isValidHttpUrl(req.url)
       THEN /\ responses' = Append(responses, Resp(400, "text", "Invalid URL", <<>>))
            /\ pc' = "done"
            /\ work' = work
       ELSE /\ work' = work \cup {"launch"}
            /\ pc' = "launch"
            /\ responses' = responses
    /\ UNCHANGED <<endpoint, req, apiKey, browser, page, pageTitle, mainText,
                   filenameBase, filename, pdfScale, llm, failed, pageStatus, fnVars>>

Launch ==
    /\ endpoint = "print" /\ pc = "launch"
    /\ \/ /\ browser' = "open"
          /\ pc' = "newPage"
          /\ UNCHANGED <<failed, responses>>
       \/ /\ Throw("launch")
          /\ browser' = browser
    /\ UNCHANGED <<endpoint, req, apiKey, work, page, pageTitle, mainText,
                   filenameBase, filename, pdfScale, llm, pageStatus, fnVars>>

\* an awaited call that changes nothing the handler reads
Await(step, next) ==
    /\ endpoint = "print" /\ pc = step
    /\ \/ /\ pc' = next
          /\ UNCHANGED <<failed, responses>>
       \/ Throw(step)
    /\ UNCHANGED <<endpoint, req, apiKey, browser, work, page, pageTitle, mainText,
                   filenameBase, filename, pdfScale, llm, pageStatus, fnVars>>

NewPage == Await("newPage", "setExtraHTTPHeaders")

SetExtraHTTPHeaders == Await("setExtraHTTPHeaders", "goto")

Goto ==
    /\ endpoint = "print" /\ pc = "goto"
    /\ \/ /\ page' \in HandlerDocs
          /\ pc' = "addStyleTag"
          /\ UNCHANGED <<failed, responses>>
       \/ /\ Throw("goto")
          /\ page' = page
    /\ UNCHANGED <<endpoint, req, apiKey, browser, work, pageTitle, mainText,
                   filenameBase, filename, pdfScale, llm, pageStatus, fnVars>>

AddStyleTag == Await("addStyleTag", "title")

Title ==
    /\ endpoint = "print" /\ pc = "title"
    /\ \/ /\ pageTitle' \in Titles
          /\ pc' = "evaluate"
          /\ UNCHANGED <<failed, responses>>
       \/ /\ Throw("title")
          /\ pageTitle' = pageTitle
    /\ UNCHANGED <<endpoint, req, apiKey, browser, work, page, mainText,
                   filenameBase, filename, pdfScale, llm, pageStatus, fnVars>>

\* lines 128-136: the filename, then the call of page.pdf with the clamped scale
StartPdf(base) ==
    /\ filenameBase' = base
    /\ filename' = sanitizeFilename(Str(base)) \o PdfExt
    /\ pdfScale' = ClampScale(DefaultScale(req.scale))
    /\ pc' = "pdf"

\* page.evaluate, then `filenameBase = pageTitle || 'document'` and either the
\* title suggestion or the PDF
Evaluate ==
    /\ endpoint = "print" /\ pc = "evaluate"
    /\ \/ /\ mainText' = ExtractMainText(page)
          /\ LET base == IF pageTitle = <<>> THEN DocumentStr ELSE pageTitle
             IN  IF req.useLLM
                 THEN /\ filenameBase' = base
                      /\ work' = IF apiKey THEN work \cup {"llm"} ELSE work
                      /\ pc' = "llm"
                      /\ UNCHANGED <<filename, pdfScale>>
                 ELSE /\ StartPdf(base)
                      /\ work' = work
          /\ UNCHANGED <<failed, responses>>
       \/ /\ Throw("evaluate")
          /\ UNCHANGED <<mainText, filenameBase, filename, pdfScale, work>>
    /\ UNCHANGED <<endpoint, req, apiKey, browser, page, pageTitle, llm, pageStatus, fnVars>>

\* the title suggestion without the inner try/catch
PrintLLMNoCatch ==
    /\ endpoint = "print" /\ pc = "llm"
    /\ \E reply \in RepliesFor(apiKey) :
          LET r == suggestTitleFromText(apiKey, reply)
          IN  /\ llm' = r
              /\ IF r.threw
                 THEN /\ Throw("llm")
                      /\ UNCHANGED <<filenameBase, filename, pdfScale>>
                 ELSE /\ StartPdf(IF r.value.t = "str" THEN r.value.v ELSE filenameBase)
                      /\ UNCHANGED <<failed, responses>>
    /\ UNCHANGED <<endpoint, req, apiKey, browser, work, page, pageTitle, mainText,
                   pageStatus, fnVars>>

\* the awaited title suggestion inside its own try/catch: a throw is dropped
PrintLLM ==
    /\ endpoint = "print" /\ pc = "llm"
    /\ \E reply \in RepliesFor(apiKey) :
          LET r == suggestTitleFromText(apiKey, reply)
          IN  /\ llm' = r
              /\ StartPdf(IF ~r.threw /\ r.value.t = "str" THEN r.value.v ELSE filenameBase)
    /\ UNCHANGED <<endpoint, req, apiKey, browser, work, page, pageTitle, mainText,
                   failed, responses, pageStatus, fnVars>>

\* page.pdf, then the headers and res.send
Pdf ==
    /\ endpoint = "print" /\ pc = "pdf"
    /\ \/ /\ responses' = Append(responses, Resp(200, "pdf", "attachment", filename))
          /\ pc' = "close"
          /\ failed' = failed
       \/ Throw("pdf")
       \/ Throw("send")
    /\ UNCHANGED <<endpoint, req, apiKey, browser, work, page, pageTitle, mainText,
                   filenameBase, filename, pdfScale, llm, pageStatus, fnVars>>

\* finally { if (browser) await browser.close(); }
Close ==
    /\ endpoint = "print" /\ pc = "close"
    /\ browser' = "closed"
    /\ pc' = "done"
    /\ UNCHANGED <<endpoint, req, apiKey, work, page, pageTitle, mainText,
                   filenameBase, filename, pdfScale, llm, failed, responses,
                   pageStatus, fnVars>>

----------------------------------------------------------------------------
(* POST /api/suggest-title *)

TitleStart ==
    /\ endpoint = "title" /\ pc = "start"
    /\ IF ~isValidHttpUrl(req.url)
       THEN /\ responses' = Append(responses, Resp(400, "json", "error", <<>>))
            /\ pc' = "done"
            /\ work' = work
       ELSE /\ work' = work \cup {"fetch"}
            /\ pc' = "fetch"
            /\ responses' = responses
    /\ UNCHANGED <<endpoint, req, apiKey, browser, page, pageTitle, mainText,
                   filenameBase, filename, pdfScale, llm, failed, pageStatus, fnVars>>

\* fetch(url) and .text(): they reject on a network failure only; a response
\* of any status resolves, and its body is the html
Fetch ==
    /\ endpoint = "title" /\ pc = "fetch"
    /\ \/ /\ pageStatus' \in PageStatuses
          /\ work' = IF apiKey THEN work \cup {"llm"} ELSE work
          /\ pc' = "llm"
          /\ UNCHANGED <<failed, responses>>
       \/ /\ failed' = "fetch"
          /\ responses' = Append(responses, Resp(500, "json", "error", <<>>))
          /\ pc' = "done"
          /\ UNCHANGED <<pageStatus, work>>
    /\ UNCHANGED <<endpoint, req, apiKey, browser, page, pageTitle, mainText,
                   filenameBase, filename, pdfScale, llm, fnVars>>

TitleLLM ==
    /\ endpoint = "title" /\ pc = "llm"
    /\ \E reply \in RepliesFor(apiKey) :
          LET r == suggestTitleFromText(apiKey, reply)
          IN  /\ llm' = r
              /\ IF r.threw
                 THEN /\ failed' = "llm"
                      /\ responses' = Append(responses, Resp(500, "json", "error", <<>>))
                 ELSE /\ failed' = failed
                      /\ responses' = Append(responses,
                            Resp(200, "json", "title",
                                 IF r.value.t = "str" THEN sanitizeFilename(r.value)
                                 ELSE DocumentStr))
    /\ pc' = "done"
    /\ UNCHANGED <<endpoint, req, apiKey, browser, work, page, pageTitle, mainText,
                   filenameBase, filename, pdfScale, pageStatus, fnVars>>

----------------------------------------------------------------------------

Init ==
    /\ HandlerIdle
    /\ apiKey \in BOOLEAN
    /\ FnIdle

Next ==
    \/ Receive
    \/ PrintStart
    \/ Launch
    \/ NewPage
    \/ SetExtraHTTPHeaders
    \/ Goto
    \/ AddStyleTag
    \/ Title
    \/ Evaluate
    \/ PrintLLM
    \/ Pdf
    \/ Close
    \/ TitleStart
    \/ Fetch
    \/ TitleLLM

Spec == Init /\ [][Next]_vars

----------------------------------------------------------------------------
(* Properties *)

LastStatus == responses[Len(responses)].status

BasePageTitle == IF pageTitle = <<>> THEN DocumentStr ELSE pageTitle

\* C1: in POST /api/print-pdf a browser whose launch succeeded is closed when
\* the handler finishes, whichever awaited call threw: the handler never ends
\* with the browser open, and it ends with the browser closed whenever the
\* launch was made and did not fail.
C1_BrowserClosedOnEveryExit ==
    (endpoint = "print" /\ pc = "done") =>
        /\ browser # "open"
        /\ ("launch" \in work /\ failed # "launch") => browser = "closed"

\* C1 witness: the response write threw, and the handler ended with the browser closed
C1_Witness ==
    endpoint = "print" /\ pc = "done" /\ failed = "send" /\ browser = "closed"

\* C2: on both endpoints a request whose url is not an http/https URL is
\* answered 400 and nothing else, and no launch, page fetch or LLM request is
\* ever started for it.
C2_InvalidUrlRejectedBeforeWork ==
    (endpoint # "none" /\ req.url \in OtherUrls) =>
        /\ work = {}
        /\ browser = "none"
        /\ pc \in {"start", "done"}
        /\ pc = "done" => (Len(responses) = 1 /\ responses[1].status = 400)

\* C2 witness: an ftp URL sent to the PDF endpoint was answered 400
C2_Witness ==
    /\ endpoint = "print" /\ pc = "done"
    /\ req.url = Str(<<"f","t","p",":","/","/","a">>)
    /\ Len(responses) = 1 /\ responses[1].status = 400

\* C3: in POST /api/print-pdf with useLLM, when the title suggestion throws
\* the filename base stays the one held before the call (the page title, or
\* 'document' for an empty one), the throw is never what fails the request,
\* and a request in which nothing else throws is answered 200 with the PDF
\* named after that base.
C3_LLMFailureFallsBack ==
    (endpoint = "print" /\ llm.threw) =>
        /\ req.useLLM
        /\ failed # "llm"
        /\ filenameBase = BasePageTitle
        /\ (pc = "done" /\ failed = "none") =>
              /\ Len(responses) = 1
              /\ responses[1].status = 200
              /\ responses[1].type = "pdf"
              /\ responses[1].name = sanitizeFilename(Str(BasePageTitle)) \o PdfExt

\* C3 witness: the provider answered with a non-success status and the PDF was sent
C3_Witness ==
    /\ endpoint = "print" /\ pc = "done" /\ llm.threw /\ failed = "none"
    /\ pageTitle = <<"a", "/", "b">>
    /\ Len(responses) = 1 /\ responses[1].status = 200

\* C4: in POST /api/print-pdf with a valid url, a failed launch, navigation
\* or PDF production yields exactly one response, 500 with the plain text
\* prefix "Failed to generate PDF: ", and never a 200.
C4_RenderFailureIsOne500 ==
    (endpoint = "print" /\ failed \in {"launch", "goto", "pdf"}) =>
        /\ req.url \in HttpUrls
        /\ Len(responses) = 1
        /\ responses[1] = Resp(500, "text", "Failed to generate PDF: ", <<>>)

\* C4 witness: the navigation threw and the handler finished
C4_Witness ==
    /\ endpoint = "print" /\ pc = "done" /\ failed = "goto"
    /\ Len(responses) = 1 /\ responses[1].status = 500

\* C5 as stated: in POST /api/suggest-title a non-success response of the
\* fetched page or of the LLM provider ends in 500, and 200 is sent only when
\* both succeeded (or no key is configured).
C5_Original ==
    (endpoint = "title" /\ pc = "done" /\ req.url \in HttpUrls) =>
        /\ (pageStatus \notin {0, 200} \/ (llm.reply.kind = "response" /\ ~llm.reply.ok))
              => LastStatus = 500
        /\ LastStatus = 200 =>
              /\ pageStatus = 200
              /\ ~apiKey \/ (llm.reply.kind = "response" /\ llm.reply.ok)

\* C5 amended: in POST /api/suggest-title with a valid url exactly one
\* response is sent; a rejected page fetch or a rejected or non-success LLM
\* call ends in 500 {error}; 200 {title} is sent only when the page fetch
\* resolved (with any status) and the LLM call succeeded or no key is
\* configured.
C5_UpstreamFailureIs500 ==
    (endpoint = "title" /\ pc = "done" /\ req.url \in HttpUrls) =>
        /\ Len(responses) = 1
        /\ responses[1].type = "json"
        /\ (pageStatus = 0 \/ (apiKey /\ ~llm.reply.ok)) <=> responses[1].status = 500
        /\ responses[1].status = 500 => responses[1].text = "error"
        /\ responses[1].status # 500 =>
              /\ responses[1].status = 200
              /\ responses[1].text = "title"
              /\ pageStatus \in PageStatuses
              /\ ~apiKey \/ (llm.reply.kind = "response" /\ llm.reply.ok)

\* C5 witness: the page answered 404, the provider answered with a
\* non-success status, and the request ended in 500
C5_Witness ==
    /\ endpoint = "title" /\ pc = "done" /\ pageStatus = 404
    /\ llm.reply.kind = "response" /\ ~llm.reply.ok
    /\ Len(responses) = 1 /\ responses[1].status = 500

\* C6 as stated: the scale handed to page.pdf is min(2.0, max(0.1, s)) for
\* every numeric requested scale s (0.1 for every s below 0.1, 0 included),
\* and 1.0 when the scale is absent.
C6_ScaleIsClamped ==
    phase = "once" =>
        /\ input.t = "num" => output[1] = Min(ScaleMax, Max(ScaleMin, input.v))
        /\ input.t = "undefined" => output[1] = ScaleOne

\* C7 as stated: sanitizing a sanitized name changes nothing.
C7_SanitizeIdempotent ==
    phase = "twice" => output[2] = output[1]

C10_LongestCandidate ==
    phase = "once" =>
        LET len(i) == input.el[Candidates[i]].len
            idx == 1..Len(Candidates)
        IN  /\ output[1].len <= TextLimit
            /\ (\A i \in idx : len(i) = 0) =>
                  output[1] = Text("body", Min(input.body.len, TextLimit))
            /\ \A i \in idx :
                  (len(i) > 0 /\ (\A j \in idx : len(j) <= len(i))
                              /\ (\A j \in idx : j < i => len(j) < len(i))) =>
                      output[1] = Text(Candidates[i], Min(len(i), TextLimit))

\* C10 witness: main and .post tie above the limit, article is shorter, and
\* the text of main is returned cut to the limit
C10_Witness ==
    /\ phase = "once"
    /\ input.el["article"].len = 1
    /\ input.el["main"].len = TextLimit + 1
    /\ input.el[".post"].len = TextLimit + 1
    /\ output[1] = Text("main", TextLimit)

====
